---- MODULE Spec2Model ----
(***************************************************************************)
(* Model of src/interactive.py, the Streamlit pollution dashboard.  One    *)
(* behaviour is one run of the script: the upload is read, the missing     *)
(* values are cleaned with the selected method, duplicates are dropped,    *)
(* and the four tabs are computed in script order.                         *)
(*                                                                         *)
(* Numbers.  pandas works on float64; the model works on exact rationals   *)
(* held as integers in units of 1/Scale, so that every mean and median of  *)
(* at most MaxRows values is an integer.  Rounding of float64 is not       *)
(* modelled.  A missing number is NaN, a missing string is NaNStr.         *)
(*                                                                         *)
(* Rendering.  matplotlib/seaborn/streamlit calls are modelled by their    *)
(* effect on control flow only: the exceptions they raise on the data the  *)
(* model can produce (hist on NaN, bar plot of an empty series) and        *)
(* st.stop().  An uncaught exception ends the script run.                  *)
(***************************************************************************)
EXTENDS Integers, Sequences, FiniteSets, TLC

VARIABLES
    pc,         \* position of the script run
    uploaded,   \* rows of the uploaded sheet as read by pd.read_excel
    method,     \* the selected missing-value method
    data,       \* the DataFrame `data`
    shown,      \* what the tab computed last: [what, n, series]
    outliers,   \* tab3: the DataFrame `outliers`
    clean_data, \* tab3: the DataFrame `clean_data`
    fences,     \* tab3: [nan, lower, upper], the bounds times 8; nan when undefined
    rendered,   \* the tabs whose body ran to its end
    err         \* the exception that ended the run, "" if none

vars == <<pc, uploaded, method, data, shown, outliers, clean_data, fences, rendered, err>>

----------------------------------------------------------------------------
(* Bounds *)

MaxRows == 3

MaxTop == 2

----------------------------------------------------------------------------
(* Values and columns *)

NaN == -1

NaNStr == "nan"

RECURSIVE Factorial(_)
Factorial(n) == IF n <= 1 THEN 1 ELSE n * Factorial(n - 1)

\* one unit of the sheet is Scale units of the model
Scale == Factorial(MaxRows) * Factorial(MaxRows)

Num(v) == IF v = NaN THEN NaN ELSE v * Scale

columns == <<"city", "pollutant_id", "pollutant_min", "pollutant_max", "pollutant_avg">>

num_cols == <<"pollutant_min", "pollutant_max", "pollutant_avg">>

StrCols == {"city", "pollutant_id"}

\* lexical order of the strings of the model
StrRank == [s \in {"A", "B", "C", "NO2", "PM10"} |->
            CASE s = "A" -> 1 [] s = "B" -> 2 [] s = "C" -> 3
              [] s = "NO2" -> 4 [] s = "PM10" -> 5]

isna(c, v) == IF c \in StrCols THEN v = NaNStr ELSE v = NaN

KeyOrd(c, k) == IF c \in StrCols THEN StrRank[k] ELSE k

Row(c, p, mn, mx, av) ==
    [city |-> c, pollutant_id |-> p, pollutant_min |-> Num(mn),
     pollutant_max |-> Num(mx), pollutant_avg |-> Num(av)]

\* the rows an uploaded sheet is made of
RowPool ==
    { Row("A", "PM10", 1, 1, 1),     Row("A", "PM10", 1, 1, 2),
      Row("B", "NO2", 1, 1, 1),      Row("A", "PM10", 1, 1, NaN),
      Row("B", "NO2", 1, 1, NaN),    Row(NaNStr, "PM10", 1, 1, 1),
      Row("A", "PM10", NaN, 1, 1),   Row("A", "NO2", 1, NaN, 2),
      Row("B", NaNStr, NaN, NaN, NaN) }

Uploads == UNION { [1..n -> RowPool] : n \in 1..MaxRows }

Methods == {"Fill with Mean", "Fill with Median", "Fill with Mode", "Drop Rows"}

----------------------------------------------------------------------------
(* pandas / numpy operations used by the script *)

\* the rows of s at the indices idx, in the order of s
RECURSIVE Take(_, _, _)
Take(s, idx, i) ==
    IF i > Len(s) THEN <<>>
    ELSE (IF i \in idx THEN <<s[i]>> ELSE <<>>) \o Take(s, idx, i + 1)

Col(d, c) == [i \in 1..Len(d) |-> d[i][c]]

notna(s) == Take(s, {i \in 1..Len(s) : s[i] # NaN}, 1)

RECURSIVE Sum(_)
Sum(s) == IF Len(s) = 0 THEN 0 ELSE Head(s) + Sum(Tail(s))

\* Series.mean(): missing values skipped, NaN when nothing is left
mean(s) ==
    LET xs == notna(s)
    IN  IF Len(xs) = 0 THEN NaN ELSE Sum(xs) \div Len(xs)

RECURSIVE Insert(_, _)
Insert(x, s) ==
    IF Len(s) = 0 THEN <<x>>
    ELSE IF x <= Head(s) THEN <<x>> \o s
    ELSE <<Head(s)>> \o Insert(x, Tail(s))

RECURSIVE sort(_)
sort(s) == IF Len(s) = 0 THEN <<>> ELSE Insert(Head(s), sort(Tail(s)))

\* Series.median(): missing values skipped, NaN when nothing is left
median(s) ==
    LET xs == sort(notna(s))
        n  == Len(xs)
    IN  IF n = 0 THEN NaN
        ELSE IF n % 2 = 1 THEN xs[(n + 1) \div 2]
        ELSE (xs[n \div 2] + xs[n \div 2 + 1]) \div 2

Count(s, v) == Cardinality({i \in 1..Len(s) : s[i] = v})

\* faulty variant of mode: the largest of the most frequent values
modeLast(s) ==
    LET xs   == notna(s)
        vals == {xs[i] : i \in 1..Len(xs)}
        best == {v \in vals : \A w \in vals : Count(xs, w) <= Count(xs, v)}
    IN  IF best = {} THEN <<>>
        ELSE <<CHOOSE v \in best : \A w \in best : w <= v>>

\* Series.mode(): the most frequent non-missing values, sorted ascending;
\* an empty Series when every value is missing
mode(s) ==
    LET xs   == notna(s)
        vals == {xs[i] : i \in 1..Len(xs)}
        best == {v \in vals : \A w \in vals : Count(xs, w) <= Count(xs, v)}
    IN  sort(Take(xs, {i \in 1..Len(xs) : xs[i] \in best
                                        /\ \A j \in 1..(i - 1) : xs[j] # xs[i]}, 1))

\* data[col] = data[col].fillna(v); fillna(NaN) fills nothing
fillna(d, c, v) ==
    [i \in 1..Len(d) |-> [d[i] EXCEPT ![c] = IF @ = NaN THEN v ELSE @]]

FillMean(d) ==
    LET d1 == fillna(d, num_cols[1], mean(Col(d, num_cols[1])))
        d2 == fillna(d1, num_cols[2], mean(Col(d1, num_cols[2])))
    IN  fillna(d2, num_cols[3], mean(Col(d2, num_cols[3])))

FillMedian(d) ==
    LET d1 == fillna(d, num_cols[1], median(Col(d, num_cols[1])))
        d2 == fillna(d1, num_cols[2], median(Col(d1, num_cols[2])))
    IN  fillna(d2, num_cols[3], median(Col(d2, num_cols[3])))

\* the loop of the mode branch: [ok, data]; mode()[0] raises on the first
\* column whose mode() is empty, the columns before it are already filled
RECURSIVE FillMode(_, _)
FillMode(d, k) ==
    IF k > Len(num_cols) THEN [ok |-> TRUE, data |-> d]
    ELSE LET m == mode(Col(d, num_cols[k]))
         IN  IF Len(m) = 0 THEN [ok |-> FALSE, data |-> d]
             ELSE FillMode(fillna(d, num_cols[k], m[1]), k + 1)

\* variant of dropna: dropna(subset=num_cols)
dropnaNumeric(d) ==
    Take(d, {i \in 1..Len(d) : \A k \in 1..Len(num_cols) : d[i][num_cols[k]] # NaN}, 1)

\* DataFrame.dropna(): rows with a missing value in any column are dropped
dropna(d) ==
    Take(d, {i \in 1..Len(d) : \A k \in 1..Len(columns) : ~isna(columns[k], d[i][columns[k]])}, 1)

\* faulty variant of drop_duplicates: keep="last"
drop_duplicatesKeepLast(d) ==
    Take(d, {i \in 1..Len(d) : \A j \in (i + 1)..Len(d) : d[j] # d[i]}, 1)

\* faulty variant of drop_duplicates: inplace=True forgotten
drop_duplicatesNone(d) == d

\* DataFrame.drop_duplicates(): keep="first", missing values compare equal
RECURSIVE drop_duplicates(_)
drop_duplicates(d) ==
    IF Len(d) = 0 THEN <<>>
    ELSE LET front == drop_duplicates(SubSeq(d, 1, Len(d) - 1))
             last  == d[Len(d)]
         IN  IF \E i \in 1..Len(front) : front[i] = last
             THEN front ELSE Append(front, last)

\* the exceptions Series.mode()[0] raises on an empty Series (by pandas version)
LookupErrors == {"KeyError", "IndexError"}

----------------------------------------------------------------------------
(* The script *)

NoShow == [what |-> "", n |-> 0, series |-> <<>>]

Init ==
    /\ pc = "start"
    /\ uploaded = <<>>
    /\ method = ""
    /\ data = <<>>
    /\ shown = NoShow
    /\ outliers = <<>>
    /\ clean_data = <<>>
    /\ fences = [nan |-> TRUE, lower |-> 0, upper |-> 0]
    /\ rendered = {}
    /\ err = ""

\* lines 157-158: no file yet
NoFile ==
    /\ pc = "start"
    /\ pc' = "waiting"
    /\ UNCHANGED <<uploaded, method, data, shown, outliers, clean_data, fences, rendered, err>>

\* lines 20-27
Upload ==
    /\ pc = "start"
    /\ \E rows \in Uploads :
          /\ uploaded' = rows
          /\ data' = rows
    /\ pc' = "clean"
    /\ UNCHANGED <<method, shown, outliers, clean_data, fences, rendered, err>>

Raise(e) == pc' = "error" /\ err' = e

\* lines 31-49
Clean ==
    /\ pc = "clean"
    /\ \E m \in Methods :
          /\ method' = m
          /\ CASE m = "Fill with Mean" ->
                    data' = FillMean(data) /\ pc' = "dedup" /\ err' = err
               [] m = "Fill with Median" ->
                    data' = FillMedian(data) /\ pc' = "dedup" /\ err' = err
               [] m = "Fill with Mode" ->
                    LET r == FillMode(data, 1)
                    IN  /\ data' = r.data
                        /\ IF r.ok THEN pc' = "dedup" /\ err' = err
                           ELSE \E e \in LookupErrors : Raise(e)
               [] m = "Drop Rows" ->
                    data' = dropna(data) /\ pc' = "dedup" /\ err' = err
    /\ UNCHANGED <<uploaded, shown, outliers, clean_data, fences, rendered>>

\* lines 51-52
RemoveDuplicates ==
    /\ pc = "dedup"
    /\ data' = drop_duplicates(data)
    /\ pc' = "tab1"
    /\ UNCHANGED <<uploaded, method, shown, outliers, clean_data, fences, rendered, err>>

----------------------------------------------------------------------------
(* Aggregation helpers of the tabs *)

RECURSIVE SortedKeys(_, _)
SortedKeys(S, c) ==
    IF S = {} THEN <<>>
    ELSE LET m == CHOOSE k \in S : \A j \in S : KeyOrd(c, k) <= KeyOrd(c, j)
         IN  <<m>> \o SortedKeys(S \ {m}, c)

\* data.groupby(x)[y].mean(): one entry per non-missing key, keys ascending
GroupMean(d, x, y) ==
    LET keys == SortedKeys({d[i][x] : i \in {j \in 1..Len(d) : ~isna(x, d[j][x])}}, x)
    IN  [k \in 1..Len(keys) |->
            [key   |-> keys[k],
             value |-> mean(Col(Take(d, {i \in 1..Len(d) : d[i][x] = keys[k]}, 1), y))]]

Orderings(n) == {p \in [1..n -> 1..n] : \A a, b \in 1..n : a # b => p[a] # p[b]}

\* faulty variant of sort_values: ascending=False forgotten
sort_valuesAscending(s) ==
    { [a \in 1..Len(s) |-> s[p[a]]] : p \in
        { q \in Orderings(Len(s)) :
            \A a, b \in 1..Len(s) : a < b =>
                s[q[a]].value = NaN \/ s[q[b]].value = NaN \/ s[q[a]].value <= s[q[b]].value } }

\* Series.sort_values(ascending=False): kind="quicksort" is not stable, so
\* entries of equal value come out in any order; missing values come last,
\* in index order
sort_values(s) ==
    { [a \in 1..Len(s) |-> s[p[a]]] : p \in
        { q \in Orderings(Len(s)) :
            \A a, b \in 1..Len(s) : a < b =>
                LET va == s[q[a]].value
                    vb == s[q[b]].value
                IN  /\ ~(va = NaN /\ vb # NaN)
                    /\ (va # NaN /\ vb # NaN) => va >= vb
                    /\ (va = NaN /\ vb = NaN) => q[a] < q[b] } }

\* Series.head(n)
head(s, n) == SubSeq(s, 1, IF n < Len(s) THEN n ELSE Len(s))

\* data.groupby('city')['pollutant_avg'].mean().sort_values(ascending=False).head(n)
TopN(d, n) == { head(s, n) : s \in sort_values(GroupMean(d, "city", "pollutant_avg")) }

\* np.percentile(xs, 25*q), linear interpolation, times 4 (xs sorted, not empty)
Percentile4(xs, q) ==
    LET h4 == (Len(xs) - 1) * q
        lo == h4 \div 4
        r  == h4 % 4
        a  == xs[lo + 1]
        b  == IF r = 0 THEN a ELSE xs[lo + 2]
    IN  4 * a + r * (b - a)

\* lines 129-133, times 8; nan when the column holds a missing value
Fences(v) ==
    IF Len(v) = 0 \/ \E i \in 1..Len(v) : v[i] = NaN
    THEN [nan |-> TRUE, lower |-> 0, upper |-> 0]
    ELSE LET Q1  == Percentile4(sort(v), 1)
             Q3  == Percentile4(sort(v), 3)
             IQR == Q3 - Q1
         IN  [nan |-> FALSE, lower |-> 2 * Q1 - 3 * IQR, upper |-> 2 * Q3 + 3 * IQR]

\* comparisons with NaN are False
Below(x, f) == x # NaN /\ ~f.nan /\ 8 * x < f.lower

Above(x, f) == x # NaN /\ ~f.nan /\ 8 * x > f.upper

Outside(d, f) ==
    Take(d, {i \in 1..Len(d) : Below(d[i].pollutant_avg, f) \/ Above(d[i].pollutant_avg, f)}, 1)

Inside(d, f) ==
    Take(d, {i \in 1..Len(d) : ~d[i].pollutant_avg = NaN /\ ~f.nan
                               /\ 8 * d[i].pollutant_avg >= f.lower
                               /\ 8 * d[i].pollutant_avg <= f.upper}, 1)

----------------------------------------------------------------------------
(* tab1: Prebuilt Analysis, lines 57-105 *)

Show(w, n, s) == shown' = [what |-> w, n |-> n, series |-> s]

\* st.pyplot(fig) at the end of a tab body
Rendered(tab, next) ==
    /\ rendered' = rendered \cup {tab}
    /\ pc' = next
    /\ err' = err

Tab1Frame == UNCHANGED <<uploaded, method, data, outliers, clean_data, fences>>

\* lines 71-73: ax.hist raises on a range that is not finite
Histogram ==
    /\ pc = "tab1"
    /\ Show("Histogram - Pollutant Average", 0, <<>>)
    /\ IF \E i \in 1..Len(data) : data[i].pollutant_avg = NaN
       THEN Raise("ValueError") /\ rendered' = rendered
       ELSE Rendered("tab1", "tab2")
    /\ Tab1Frame

\* lines 74-77: a bar plot of an empty Series raises
BarChart ==
    /\ pc = "tab1"
    /\ \E city_avg \in sort_values(GroupMean(data, "city", "pollutant_avg")) :
          /\ Show("Bar Chart - Avg Pollution by City", 0, city_avg)
          /\ IF Len(city_avg) = 0
             THEN Raise("IndexError") /\ rendered' = rendered
             ELSE Rendered("tab1", "tab2")
    /\ Tab1Frame

\* faulty variant of ScatterTop20: the selection is assigned back to data
ScatterTop20Assign ==
    /\ pc = "tab1"
    /\ \E top_cities \in TopN(data, 20) :
          /\ Show("Scatter - Pollution Type in Top 20 Cities", 20, top_cities)
          /\ data' = Take(data, {i \in 1..Len(data) :
                          \E k \in 1..Len(top_cities) : top_cities[k].key = data[i].city}, 1)
    /\ Rendered("tab1", "tab2")
    /\ UNCHANGED <<uploaded, method, outliers, clean_data, fences>>

\* lines 78-86
ScatterTop20 ==
    /\ pc = "tab1"
    /\ \E top_cities \in TopN(data, 20) :
          Show("Scatter - Pollution Type in Top 20 Cities", 20, top_cities)
    /\ Rendered("tab1", "tab2")
    /\ Tab1Frame

\* lines 87-90
Top10 ==
    /\ pc = "tab1"
    /\ \E top10 \in TopN(data, 10) :
          /\ Show("Top 10 Most Polluted Cities", 10, top10)
          /\ IF Len(top10) = 0
             THEN Raise("IndexError") /\ rendered' = rendered
             ELSE Rendered("tab1", "tab2")
    /\ Tab1Frame

\* lines 91-93
BoxPlot ==
    /\ pc = "tab1"
    /\ Show("Box Plot - Outlier Detection", 0, <<>>)
    /\ Rendered("tab1", "tab2")
    /\ Tab1Frame

\* lines 94-97
PieChart ==
    /\ pc = "tab1"
    /\ Show("Pie Chart - Pollution Types", 0, <<>>)
    /\ Rendered("tab1", "tab2")
    /\ Tab1Frame

\* lines 98-103: the heatmap is drawn, then st.stop() ends the run
CorrelationHeatmap ==
    /\ pc = "tab1"
    /\ Show("Correlation Heatmap", 0, <<>>)
    /\ Rendered("tab1", "stopped")
    /\ Tab1Frame

----------------------------------------------------------------------------
(* tab2: Custom Visualization, lines 107-125 *)

ChartTypes == {"Bar", "Line", "Scatter", "Box", "Histogram"}

\* the charts that group: data.groupby(x)[y].mean().plot(kind=...)
GroupedChart(chart_type, g) ==
    /\ Show(chart_type, 0, g)
    /\ IF chart_type = "Bar" /\ Len(g) = 0
       THEN Raise("IndexError") /\ rendered' = rendered
       ELSE Rendered("tab2", "tab3")

CustomVisualization ==
    /\ pc = "tab2"
    /\ \/ \E kx \in 1..Len(columns), ky \in 1..Len(num_cols) :
             LET g == GroupMean(data, columns[kx], num_cols[ky])
             IN  \E chart_type \in {"Bar", "Line"} : GroupedChart(chart_type, g)
       \/ \E chart_type \in ChartTypes \ {"Bar", "Line"} :
             Show(chart_type, 0, <<>>) /\ Rendered("tab2", "tab3")
    /\ UNCHANGED <<uploaded, method, data, outliers, clean_data, fences>>

----------------------------------------------------------------------------
(* tab3: Outliers, lines 127-143 *)

Outliers ==
    /\ pc = "tab3"
    /\ Len(data) > 0
    /\ fences' = Fences(Col(data, "pollutant_avg"))
    /\ outliers' = Outside(data, fences')
    /\ clean_data' = Inside(data, fences')
    /\ Show("Outliers", 0, <<>>)
    /\ Rendered("tab3", "tab4")
    /\ UNCHANGED <<uploaded, method, data>>

\* np.percentile of an empty column: nan (older numpy) or IndexError
OutliersEmpty ==
    /\ pc = "tab3"
    /\ Len(data) = 0
    /\ Show("Outliers", 0, <<>>)
    /\ \/ /\ fences' = Fences(<<>>)
          /\ outliers' = <<>>
          /\ clean_data' = <<>>
          /\ Rendered("tab3", "tab4")
       \/ /\ Raise("IndexError")
          /\ UNCHANGED <<fences, outliers, clean_data, rendered>>
    /\ UNCHANGED <<uploaded, method, data>>

----------------------------------------------------------------------------
(* tab4: Dataset Info, lines 145-155 *)

MissingValues(d) ==
    [k \in 1..Len(columns) |->
        [key   |-> columns[k],
         value |-> Cardinality({i \in 1..Len(d) : isna(columns[k], d[i][columns[k]])})]]

DatasetInfo ==
    /\ pc = "tab4"
    /\ Show("Dataset Info", 0, MissingValues(data))
    /\ Rendered("tab4", "done")
    /\ UNCHANGED <<uploaded, method, data, outliers, clean_data, fences>>

----------------------------------------------------------------------------

Next ==
    \/ NoFile
    \/ Upload
    \/ Clean
    \/ RemoveDuplicates
    \/ Histogram
    \/ BarChart
    \/ ScatterTop20
    \/ Top10
    \/ BoxPlot
    \/ PieChart
    \/ CorrelationHeatmap
    \/ CustomVisualization
    \/ Outliers
    \/ OutliersEmpty
    \/ DatasetInfo

Spec == Init /\ [][Next]_vars

----------------------------------------------------------------------------
(* The ranking as a function of the cleaned dataset and of n: the chain    *)
(* groupby/mean/sort_values/head of lines 79 and 88, applied to datasets   *)
(* with more cities than n.  The datasets are ones the script holds at     *)
(* tab1: no two rows identical, pollutant_avg without a missing value or   *)
(* (mean fill of a column without any value) missing in every row.         *)

TopPool == { Row(c, "PM10", 1, 1, v) : c \in {"A", "B", "C"}, v \in {1, 2, NaN} }

RankInputs ==
    { d \in UNION { [1..n -> TopPool] : n \in 1..MaxRows } :
        /\ \A i, j \in 1..Len(d) : i # j => d[i] # d[j]
        /\ \/ \A i \in 1..Len(d) : d[i].pollutant_avg = NaN
           \/ \A i \in 1..Len(d) : d[i].pollutant_avg # NaN }

\* the n of head(n): 10 and 20 in the script, and the small ones the
\* datasets of the model can exceed
RankSizes == (1..MaxTop) \cup {10, 20}

InitTopN ==
    /\ pc = "tab1"
    /\ uploaded \in RankInputs
    /\ data = uploaded
    /\ method = "Fill with Mean"
    /\ shown = NoShow
    /\ outliers = <<>>
    /\ clean_data = <<>>
    /\ fences = [nan |-> TRUE, lower |-> 0, upper |-> 0]
    /\ rendered = {}
    /\ err = ""

RankTopN ==
    /\ pc = "tab1"
    /\ \E n \in RankSizes : \E top \in TopN(data, n) : Show("TopN", n, top)
    /\ pc' = "ranked"
    /\ UNCHANGED <<uploaded, method, data, outliers, clean_data, fences, rendered, err>>

NextTopN == RankTopN

SpecTopN == InitTopN /\ [][NextTopN]_vars

----------------------------------------------------------------------------
(* Properties *)

FillMethods == {"Fill with Mean", "Fill with Median", "Fill with Mode"}

NumCols == {num_cols[k] : k \in 1..Len(num_cols)}

AllCols == {columns[k] : k \in 1..Len(columns)}

\* out is s restricted to the indices keep, in the order of s
IsRestriction(out, s, keep) ==
    \E f \in [1..Len(out) -> 1..Len(s)] :
        /\ \A a, b \in 1..Len(out) : a < b => f[a] < f[b]
        /\ {f[a] : a \in 1..Len(out)} = keep
        /\ \A a \in 1..Len(out) : out[a] = s[f[a]]

\* a numeric column of the upload without any value
EmptyColumn(c) == \A i \in 1..Len(uploaded) : uploaded[i][c] = NaN

\* the script is at or past the tabs
AtTabs ==
    \/ pc \in {"tab1", "tab2", "tab3", "tab4", "done", "stopped", "ranked"}
    \/ pc = "error" /\ shown.what # ""

\* C1: when cleaning with mean, median or mode fill has completed, no row
\* holds a missing value in pollutant_min, pollutant_max or pollutant_avg,
\* also when one of these columns had no value at all.
C1_NoMissingAfterFill ==
    (pc = "dedup" /\ method \in FillMethods) =>
        \A i \in 1..Len(data) : \A c \in NumCols : data[i][c] # NaN

\* C2 as claimed: Drop Rows removes a row if and only if it has a missing
\* value in one of the three numeric columns; the survivors keep their order.
C2_DropRowsNumericOnly ==
    (pc = "dedup" /\ method = "Drop Rows") =>
        IsRestriction(data, uploaded,
            {i \in 1..Len(uploaded) : \A c \in NumCols : uploaded[i][c] # NaN})

\* C2 as amended: Drop Rows removes a row if and only if it has a missing
\* value in any column (so every row with a missing numeric value is
\* removed, and so is a row whose only missing value is its city); the
\* survivors keep their order.
C2_DropRowsAnyColumn ==
    (pc = "dedup" /\ method = "Drop Rows") =>
        IsRestriction(data, uploaded,
            {i \in 1..Len(uploaded) : \A c \in AllCols : ~isna(c, uploaded[i][c])})

\* C2 witness: Drop Rows has removed a row whose numeric values are all
\* present and whose city is missing, and has kept another row.
C2_Witness ==
    /\ pc = "dedup"
    /\ method = "Drop Rows"
    /\ Len(data) >= 1
    /\ \E i \in 1..Len(uploaded) :
          /\ uploaded[i].city = NaNStr
          /\ \A c \in NumCols : uploaded[i][c] # NaN

\* C3: a fill method on an upload with a numeric column without any value
\* ends the cleaning step with an EmptyColumnError, for all three methods.
C3_EmptyColumnError ==
    (method \in FillMethods /\ \E c \in NumCols : EmptyColumn(c)) =>
        (pc = "error" /\ err = "EmptyColumnError")

\* C4: removing duplicates keeps exactly the rows that differ from every
\* earlier row, in their order: the first occurrence of each row value
\* survives and no later one does.
C4_DedupKeepsFirst ==
    [][pc = "dedup" =>
         IsRestriction(data', data,
            {i \in 1..Len(data) : \A j \in 1..(i - 1) : data[j] # data[i]})]_vars

\* C4 witness: duplicates were removed and two rows survived.
C4_Witness ==
    /\ pc = "tab1"
    /\ method \in FillMethods
    /\ Len(data) < Len(uploaded)
    /\ Len(data) >= 2

\* C5: the dataset the tabs see holds no two identical rows, whatever the
\* method, also for rows that became identical only by filling.
C5_NoDuplicatesAtTabs ==
    AtTabs => \A i, j \in 1..Len(data) : i # j => data[i] # data[j]

\* C5 witness: the upload had no two identical rows, filling made two rows
\* identical and one of them is gone at the tabs.
C5_Witness ==
    /\ pc = "tab1"
    /\ method \in FillMethods
    /\ \A i, j \in 1..Len(uploaded) : i # j => uploaded[i] # uploaded[j]
    /\ Len(data) < Len(uploaded)

\* the per-city mean of pollutant_avg of the entry e of a ranking
IsCityMean(e) ==
    LET vals == notna(Col(Take(data, {i \in 1..Len(data) : data[i].city = e.key}, 1),
                          "pollutant_avg"))
    IN  /\ e.key # NaNStr
        /\ \E i \in 1..Len(data) : data[i].city = e.key
        /\ IF Len(vals) = 0 THEN e.value = NaN
           ELSE e.value * Len(vals) = Sum(vals)

Cities == {data[i].city : i \in 1..Len(data)} \ {NaNStr}

\* the cities that are not in the ranking s
ExcludedNames(s) == Cities \ {s[k].key : k \in 1..Len(s)}

\* the per-city mean of pollutant_avg
CityMean(c) ==
    mean(Col(Take(data, {i \in 1..Len(data) : data[i].city = c}, 1), "pollutant_avg"))

\* v ranks strictly above w: a value above a smaller one or above a missing one
Larger(v, w) == v # NaN /\ (w = NaN \/ v > w)

IsRanking(s, n) ==
    /\ Len(s) = (IF n < Cardinality(Cities) THEN n ELSE Cardinality(Cities))
    /\ \A k \in 1..Len(s) : IsCityMean(s[k])
    /\ \A a, b \in 1..Len(s) : a # b => s[a].key # s[b].key

\* C6 as claimed (N = 10, N = 20): the ranking is the per-city mean of pollutant_avg,
\* descending by value, cities of equal mean by name ascending, cut to
\* min(N, number of cities); no excluded city has a larger mean than an
\* included one, or an equal mean and a smaller name.
C6_TopNTiesByName ==
    (pc = "ranked" /\ shown.n \in {10, 20}) =>
        LET s == shown.series
        IN  /\ IsRanking(s, shown.n)
            /\ \A a, b \in 1..Len(s) : a < b =>
                  \/ Larger(s[a].value, s[b].value)
                  \/ s[a].value = s[b].value /\ StrRank[s[a].key] < StrRank[s[b].key]
            /\ \A k \in 1..Len(s) : \A c \in ExcludedNames(s) :
                  /\ ~Larger(CityMean(c), s[k].value)
                  /\ ~(CityMean(c) = s[k].value /\ StrRank[c] < StrRank[s[k].key])

\* C6 as amended: the top-N ranking is the per-city mean of pollutant_avg,
\* descending by value with the cities whose mean is missing last, cut to
\* min(N, number of cities); cities of equal mean come in no fixed order;
\* no excluded city has a strictly larger mean than an included one.
C6_TopNDescending ==
    (pc = "ranked") =>
        LET s == shown.series
        IN  /\ IsRanking(s, shown.n)
            /\ \A a, b \in 1..Len(s) : a < b => ~Larger(s[b].value, s[a].value)
            /\ \A k \in 1..Len(s) : \A c \in ExcludedNames(s) :
                  ~Larger(CityMean(c), s[k].value)

\* C6 witness: the ranking is cut short, and a city is left out that has
\* the mean of an included city and a smaller name.
C6_Witness ==
    /\ pc = "ranked"
    /\ shown.n < Cardinality(Cities)
    /\ \E k \in 1..Len(shown.series) : \E c \in ExcludedNames(shown.series) :
          /\ shown.series[k].value # NaN
          /\ CityMean(c) = shown.series[k].value
          /\ StrRank[c] < StrRank[shown.series[k].key]

\* C7: once the outlier view is computed every row of the dataset is in
\* exactly one of outliers (outside the bounds) and clean_data (within
\* them), also when pollutant_avg holds a missing value.
C7_OutlierPartition ==
    (pc \in {"tab4", "done"}) =>
        /\ Len(outliers) + Len(clean_data) = Len(data)
        /\ \A i \in 1..Len(data) :
              (\E k \in 1..Len(outliers) : outliers[k] = data[i])
                  # (\E k \in 1..Len(clean_data) : clean_data[k] = data[i])

\* C8: mode fill replaces every missing value of a numeric column by the
\* column's most frequent value, the smallest of them on a tie, whatever
\* the order of the rows; the other values are left as they are.
C8_ModeFillSmallest ==
    (pc = "dedup" /\ method = "Fill with Mode") =>
        /\ Len(data) = Len(uploaded)
        /\ \A c \in NumCols : \A i \in 1..Len(uploaded) :
              LET col == Col(uploaded, c)
                  v   == data[i][c]
              IN  IF uploaded[i][c] # NaN THEN v = uploaded[i][c]
                  ELSE /\ v # NaN
                       /\ Count(col, v) > 0
                       /\ \A j \in 1..Len(col) : col[j] # NaN =>
                             /\ Count(col, col[j]) <= Count(col, v)
                             /\ Count(col, col[j]) = Count(col, v) => v <= col[j]

\* C8 witness: a missing pollutant_avg was filled while two values tied
\* for most frequent, the larger one first in the upload.
C8_Witness ==
    /\ pc = "dedup"
    /\ method = "Fill with Mode"
    /\ \E i, j, k \in 1..Len(uploaded) :
          LET col == Col(uploaded, "pollutant_avg")
          IN  /\ col[i] = NaN
              /\ col[j] # NaN /\ col[k] # NaN
              /\ j < k /\ col[j] > col[k]
              /\ Count(col, col[j]) = Count(col, col[k])
              /\ \A l \in 1..Len(col) : col[l] # NaN => Count(col, col[l]) <= Count(col, col[j])

\* C9: no step of the four tabs changes the dataset.
C9_TabsReadOnly ==
    [][(pc \in {"tab1", "tab2", "tab3", "tab4"}) => (data' = data)]_vars

\* C9 witness: all four tabs have run on a dataset of several rows, one of
\* them without a city.
C9_Witness ==
    /\ pc = "done"
    /\ rendered = {"tab1", "tab2", "tab3", "tab4"}
    /\ Len(data) >= 2
    /\ \E i \in 1..Len(data) : data[i].city = NaNStr

\* C10: a run that has drawn its prebuilt chart ends only after the Custom
\* Visualization, Outliers and Dataset Info tabs were rendered too.
C10_AllTabsRendered ==
    (pc \in {"done", "stopped"}) => {"tab2", "tab3", "tab4"} \subseteq rendered

====
